---- MODULE Spec2Model ----
(***************************************************************************)
(* LfrLock: a single-slot container with lock-free reads and mutex-        *)
(* serialized writes (src/src/lib.rs).  The facade (LfrLock, WriteGuard,   *)
(* Mutex) is translated from lib.rs.  The versioned slot and the epoch     *)
(* domain behind it (crate smr_swap: SmrSwap, LocalReader, ReadGuard) are  *)
(* not part of the sources; they are modelled from spec.md sections 3,     *)
(* 4.1 and 4.2.                                                            *)
(*                                                                         *)
(* A version is a heap cell named by its index in publish order: version 1 *)
(* is the initial value, version i+1 replaced version i.                   *)
(***************************************************************************)
EXTENDS Naturals, Integers, Sequences, FiniteSets, TLC

\* ------------------------------------------------------------------ bounds
\* At most MaxVersions versions are ever published (the initial one included).
MaxVersions == 3
\* At most MaxGuards read guards are held by one thread at a time.
MaxGuards == 1
\* At most MaxMuts mutations are made through one WriteGuard.
MaxMuts == 1

\* One container instance (clone) per thread, each with its own reader handle.
Threads == {1, 2}
\* LfrLock::new(Data { value: 0 })
InitVal == 0
\* Arguments passed to store / swap.
ArgVals == {5, 9}

VARIABLES
    live,      \* SmrSwap: the atomic pointer, as the index of the live version
    heap,      \* heap[i]: the payload stored in version i's cell
    freed,     \* versions whose cell has been freed by collection
    retired,   \* RetiredList: sequence of [ver, epoch]
    epoch,     \* GlobalEpoch
    slot,      \* slot[t]: ReaderSlot of t's handle, [active, epoch]
    mutex,     \* Mutex<SmrSwap<T>>: the set of threads holding it
    poisoned,  \* the poison flag of the std::sync::Mutex inside the wrapper
    pc,        \* pc[t]: position of thread t inside its current call
    arg,       \* arg[t]: the value the call in progress is about to publish
    cur,       \* cur[t]: version referenced by the guard local to the call
    src,       \* src[t]: version read under the mutex by the call in progress
    old,       \* old[t]: the outgoing value cloned by swap
    pub,       \* pub[t]: version published by the call in progress (0: none)
    guards,    \* guards[t]: versions referenced by the ReadGuards t holds
    wg,        \* wg[t]: the WriteGuard t holds: its working copy (data), and as
               \* history the version it was cloned from, the number of
               \* mutations made through it and the call it came from
    log,       \* history: log[i] = how version i was published
    done,      \* history: newest version whose publishing call released the mutex
    rs         \* history: rs[t] = done when t's last read operation was called

vars == <<live, heap, freed, retired, epoch, slot, mutex, poisoned, pc, arg, cur, src,
          old, pub, guards, wg, log, done, rs>>

shared == <<live, heap, freed, retired, epoch, log>>
locals == <<arg, cur, src, old, pub>>

\* ----------------------------------------------------------------- helpers
Inactive == [active |-> FALSE, epoch |-> 0]
NoGuard == [held |-> FALSE, data |-> 0, src |-> 0, muts |-> 0, via |-> "none"]

\* Calls that will still publish a version: a write call in progress or a
\* WriteGuard waiting to be dropped.
WritePcs == {"store_lock", "store_publish", "store_return",
             "swap_lock", "swap_clone", "swap_publish", "swap_return",
             "update_lock", "update_read", "update_publish", "update_return",
             "uaf_lock", "uaf_read", "uaf_publish", "uaf_unlock",
             "fau_load", "fau_lock", "fau_read", "fau_publish", "fau_return",
             "write_lock", "write_clone", "try_write_clone", "drop_return",
             "drop_unwind"}
Pending == Cardinality({t \in Threads : pc[t] \in WritePcs /\ pub[t] = 0})
           + Cardinality({t \in Threads : pc[t] \notin WritePcs /\ wg[t].held})
\* Bound on the run: a new write may be called while a version is left for it.
CanWrite == Len(heap) + Pending < MaxVersions
CanGuard(t) == Len(guards[t]) < MaxGuards

\* The closures used with update / update_and_fetch / fetch_and_update /
\* map / filter and the mutation made through a WriteGuard.
Inc(v) == v + 1
MapFn(v) == v * v
Pred(v) == v % 2 = 0


\* ------------------------------------------------- epoch domain (spec 4.1)
\* pin(handle): records the current global epoch into the handle's slot.
pin(t) == [slot EXCEPT ![t] = [active |-> TRUE, epoch |-> epoch]]
\* unpin(handle): resets the slot to the inactive sentinel.
unpin(t) == [slot EXCEPT ![t] = Inactive]

\* min_active_epoch(): the minimum epoch among pinned slots; "infinity", when
\* none is pinned, is an epoch above every retirement epoch.
Pinned == {t \in Threads : slot[t].active}
min_active_epoch ==
    IF Pinned = {} THEN epoch + 1
    ELSE CHOOSE e \in {slot[t].epoch : t \in Pinned} :
             \A t \in Pinned : e <= slot[t].epoch

\* Faulty variant: a tie with a pinned reader's epoch counts as safe.
Reclaimable_ties(r) == r.epoch <= min_active_epoch
\* collect(retired_list): frees every entry whose retirement epoch is strictly
\* less than min_active_epoch(); the others stay for a later pass.
Reclaimable(r) == r.epoch < min_active_epoch
Kept(r) == ~Reclaimable(r)
collect ==
    /\ freed' = freed \cup {retired[i].ver : i \in {j \in 1..Len(retired) :
                                                      Reclaimable(retired[j])}}
    /\ retired' = SelectSeq(retired, Kept)
    /\ UNCHANGED <<live, heap, epoch, log>>

\* --------------------------------------------- versioned slot (spec 4.2)
\* load(pin_guard): dereferences the atomic pointer once.
load == live

\* Reading through a reference: the payload of the cell, or, when the cell
\* has been freed, whatever the allocator left there.
Deref(v) == IF v \in freed THEN {heap[v], heap[v] + 1} ELSE {heap[v]}

\* Faulty variant: a store that does not advance the global epoch.
smr_store_no_advance(t, v, kind, from) ==
    /\ heap' = Append(heap, v)
    /\ live' = Len(heap) + 1
    /\ epoch' = epoch
    /\ retired' = Append(retired, [ver |-> live, epoch |-> epoch + 1])
    /\ log' = Append(log, [op |-> kind, val |-> v, from |-> from])
    /\ pub' = [pub EXCEPT ![t] = Len(heap) + 1]
    /\ UNCHANGED freed

\* Faulty variant: the outgoing version is tagged with the epoch before the
\* increment.
smr_store_pre_tag(t, v, kind, from) ==
    /\ heap' = Append(heap, v)
    /\ live' = Len(heap) + 1
    /\ epoch' = epoch + 1
    /\ retired' = Append(retired, [ver |-> live, epoch |-> epoch])
    /\ log' = Append(log, [op |-> kind, val |-> v, from |-> from])
    /\ pub' = [pub EXCEPT ![t] = Len(heap) + 1]
    /\ UNCHANGED freed

\* store(new_value): allocates the new version, swaps the live pointer,
\* advances the epoch and pushes the previous version onto the retired list
\* tagged with the post-increment epoch.  The log entry is history only.
smr_store(t, v, kind, from) ==
    /\ heap' = Append(heap, v)
    /\ live' = Len(heap) + 1
    /\ epoch' = epoch + 1
    /\ retired' = Append(retired, [ver |-> live, epoch |-> epoch + 1])
    /\ log' = Append(log, [op |-> kind, val |-> v, from |-> from])
    /\ pub' = [pub EXCEPT ![t] = Len(heap) + 1]
    /\ UNCHANGED freed

\* ------------------------------------------------------ Mutex (lib.rs)
\* std::sync::Mutex::lock / try_lock on a free mutex: the guard comes back as
\* Ok(guard), or as Err(Poisoned(guard)) once a holder has panicked.
std_result == IF poisoned THEN "Poisoned" ELSE "Ok"

\* Faulty variant: a lock that does not exclude (it never waits).
lock_no_exclusion(t) == mutex' = mutex \cup {t} /\ UNCHANGED poisoned
\* Faulty variant: self.0.lock().unwrap() -- a poisoned mutex is never taken.
lock_unwrap(t) ==
    mutex = {} /\ std_result = "Ok" /\ mutex' = {t} /\ UNCHANGED poisoned
\* Mutex::lock: self.0.lock().unwrap_or_else(|e| e.into_inner()) waits until
\* the mutex is free, then takes it, poisoned or not.
lock(t) ==
    /\ mutex = {}
    /\ std_result \in {"Ok", "Poisoned"}
    /\ mutex' = {t}
    /\ UNCHANGED poisoned
\* Faulty variant: try_lock hands the guard out although the mutex is held.
try_lock_always == TRUE
\* Faulty variant: try_lock reports WouldBlock although the mutex is free.
try_lock_never == FALSE
\* Mutex::try_lock: Ok exactly when the mutex is free (the Poisoned arm hands
\* the guard out as well), Err(WouldBlock) otherwise.
try_lock_ok == mutex = {} /\ std_result \in {"Ok", "Poisoned"}
\* Dropping the MutexGuard.
unlock(t) == mutex' = mutex \ {t} /\ UNCHANGED poisoned
\* Dropping the MutexGuard while the thread is panicking: std sets the flag.
unlock_panicking(t) == mutex' = mutex \ {t} /\ poisoned' = TRUE

Goto(t, p) == pc' = [pc EXCEPT ![t] = p]
\* A read operation is called: history records what had completed by then.
Called(t) == rs' = [rs EXCEPT ![t] = done]
\* The read operation is over.
EndRead(t) == rs' = [rs EXCEPT ![t] = 0]
\* The publishing call lets go of the mutex.
Completed(t) == done' = IF pub[t] > done THEN pub[t] ELSE done

Init ==
    /\ live = 1
    /\ heap = <<InitVal>>
    /\ freed = {}
    /\ retired = <<>>
    /\ epoch = 0
    /\ slot = [t \in Threads |-> Inactive]
    /\ mutex = {}
    /\ poisoned = FALSE
    /\ pc = [t \in Threads |-> "idle"]
    /\ arg = [t \in Threads |-> 0]
    /\ cur = [t \in Threads |-> 0]
    /\ src = [t \in Threads |-> 0]
    /\ old = [t \in Threads |-> 0]
    /\ pub = [t \in Threads |-> 0]
    /\ guards = [t \in Threads |-> <<>>]
    /\ wg = [t \in Threads |-> NoGuard]
    /\ log = <<[op |-> "new", val |-> InitVal, from |-> 0]>>
    /\ done = 1
    /\ rs = [t \in Threads |-> 0]

\* ------------------------------------------------ read path (lib.rs)
\* Faulty variant: a read that goes through the write mutex.
read_pin_locked(t) ==
    /\ pc[t] = "idle" /\ CanGuard(t)
    /\ mutex = {}
    /\ slot' = pin(t)
    /\ Called(t)
    /\ Goto(t, "read_load")
    /\ UNCHANGED <<shared, mutex, poisoned, locals, guards, wg, done>>

\* LfrLock::read: self.local.load() pins the handle, loads the pointer and
\* hands the guard to the caller.
read_pin(t) ==
    /\ pc[t] = "idle" /\ CanGuard(t)
    /\ slot' = pin(t)
    /\ Called(t)
    /\ Goto(t, "read_load")
    /\ UNCHANGED <<shared, mutex, poisoned, locals, guards, wg, done>>

\* Faulty variant: the handle answers from the version before the live one.
read_load_stale(t) ==
    /\ pc[t] = "read_load"
    /\ guards' = [guards EXCEPT ![t] = Append(@, IF live > 1 THEN live - 1 ELSE 1)]
    /\ EndRead(t)
    /\ Goto(t, "idle")
    /\ UNCHANGED <<shared, slot, mutex, poisoned, locals, wg, done>>

read_load(t) ==
    /\ pc[t] = "read_load"
    /\ guards' = [guards EXCEPT ![t] = Append(@, load)]
    /\ EndRead(t)
    /\ Goto(t, "idle")
    /\ UNCHANGED <<shared, slot, mutex, poisoned, locals, wg, done>>

\* Dropping a ReadGuard the caller holds: unpin.
read_guard_drop(t) ==
    /\ pc[t] = "idle"
    /\ \E i \in 1..Len(guards[t]) :
           guards' = [guards EXCEPT ![t] =
                         SubSeq(@, 1, i - 1) \o SubSeq(@, i + 1, Len(@))]
    /\ slot' = unpin(t)
    /\ UNCHANGED <<shared, mutex, poisoned, pc, locals, wg, done, rs>>

\* LfrLock::get: (&*self.local.load()).clone(); the guard is a temporary.
get_pin(t) ==
    /\ pc[t] = "idle"
    /\ slot' = pin(t)
    /\ Called(t)
    /\ Goto(t, "get_load")
    /\ UNCHANGED <<shared, mutex, poisoned, locals, guards, wg, done>>

get_load(t) ==
    /\ pc[t] = "get_load"
    /\ cur' = [cur EXCEPT ![t] = load]
    /\ Goto(t, "get_clone")
    /\ UNCHANGED <<shared, slot, mutex, poisoned, arg, src, old, pub, guards, wg, done, rs>>

get_clone(t) ==
    /\ pc[t] = "get_clone"
    /\ slot' = unpin(t)
    /\ cur' = [cur EXCEPT ![t] = 0]
    /\ EndRead(t)
    /\ Goto(t, "idle")
    /\ UNCHANGED <<shared, mutex, poisoned, arg, src, old, pub, guards, wg, done>>

\* What get returns: the clone of the payload the guard refers to.
get_result(t) == Deref(cur[t])

\* LfrLock::map: let guard = self.local.load(); f(&*guard)
map_pin(t) ==
    /\ pc[t] = "idle"
    /\ slot' = pin(t)
    /\ Called(t)
    /\ Goto(t, "map_load")
    /\ UNCHANGED <<shared, mutex, poisoned, locals, guards, wg, done>>

map_load(t) ==
    /\ pc[t] = "map_load"
    /\ cur' = [cur EXCEPT ![t] = load]
    /\ Goto(t, "map_apply")
    /\ UNCHANGED <<shared, slot, mutex, poisoned, arg, src, old, pub, guards, wg, done, rs>>

map_apply(t) ==
    /\ pc[t] = "map_apply"
    /\ slot' = unpin(t)
    /\ cur' = [cur EXCEPT ![t] = 0]
    /\ EndRead(t)
    /\ Goto(t, "idle")
    /\ UNCHANGED <<shared, mutex, poisoned, arg, src, old, pub, guards, wg, done>>

\* What map returns.
map_result(t) == {MapFn(v) : v \in Deref(cur[t])}

\* Faulty variant: filter hands the guard out whatever the predicate says.
filter_test_always(t) ==
    /\ pc[t] = "filter_test"
    /\ guards' = [guards EXCEPT ![t] = Append(@, cur[t])]
    /\ cur' = [cur EXCEPT ![t] = 0]
    /\ EndRead(t)
    /\ Goto(t, "idle")
    /\ UNCHANGED <<shared, slot, mutex, poisoned, arg, src, old, pub, wg, done>>

\* LfrLock::filter: if f(&*guard) { Some(guard) } else { None }
filter_pin(t) ==
    /\ pc[t] = "idle" /\ CanGuard(t)
    /\ slot' = pin(t)
    /\ Called(t)
    /\ Goto(t, "filter_load")
    /\ UNCHANGED <<shared, mutex, poisoned, locals, guards, wg, done>>

filter_load(t) ==
    /\ pc[t] = "filter_load"
    /\ cur' = [cur EXCEPT ![t] = load]
    /\ Goto(t, "filter_test")
    /\ UNCHANGED <<shared, slot, mutex, poisoned, arg, src, old, pub, guards, wg, done, rs>>

filter_test(t) ==
    /\ pc[t] = "filter_test"
    /\ \E v \in Deref(cur[t]) :
           IF Pred(v)
           THEN /\ guards' = [guards EXCEPT ![t] = Append(@, cur[t])]
                /\ UNCHANGED slot
           ELSE /\ slot' = unpin(t)
                /\ UNCHANGED guards
    /\ cur' = [cur EXCEPT ![t] = 0]
    /\ EndRead(t)
    /\ Goto(t, "idle")
    /\ UNCHANGED <<shared, mutex, poisoned, arg, src, old, pub, wg, done>>

\* ----------------------------------------------- write path (lib.rs)
\* The call is over: the locals of the call are gone.
Reset(t) ==
    /\ arg' = [arg EXCEPT ![t] = 0]
    /\ cur' = [cur EXCEPT ![t] = 0]
    /\ src' = [src EXCEPT ![t] = 0]
    /\ old' = [old EXCEPT ![t] = 0]
    /\ pub' = [pub EXCEPT ![t] = 0]

\* Faulty variant: a publish that waits until no reader is pinned.
store_publish_waits(t) ==
    /\ pc[t] = "store_publish"
    /\ Pinned = {}
    /\ smr_store(t, arg[t], "store", 0)
    /\ Goto(t, "store_return")
    /\ UNCHANGED <<slot, mutex, poisoned, arg, cur, src, old, guards, wg, done, rs>>

\* LfrLock::store: let mut swap = self.swap.lock(); swap.store(new_value);
store_call(t) ==
    /\ pc[t] = "idle" /\ CanWrite
    /\ \E v \in ArgVals : arg' = [arg EXCEPT ![t] = v]
    /\ Goto(t, "store_lock")
    /\ UNCHANGED <<shared, slot, mutex, poisoned, cur, src, old, pub, guards, wg, done, rs>>

store_lock(t) ==
    /\ pc[t] = "store_lock"
    /\ lock(t)
    /\ Goto(t, "store_publish")
    /\ UNCHANGED <<shared, slot, locals, guards, wg, done, rs>>

\* Faulty variant: the new value is dropped instead of stored.
store_publish_dropped(t) ==
    /\ pc[t] = "store_publish"
    /\ Goto(t, "store_return")
    /\ UNCHANGED <<shared, slot, mutex, poisoned, locals, guards, wg, done, rs>>

store_publish(t) ==
    /\ pc[t] = "store_publish"
    /\ smr_store(t, arg[t], "store", 0)
    /\ Goto(t, "store_return")
    /\ UNCHANGED <<slot, mutex, poisoned, arg, cur, src, old, guards, wg, done, rs>>

\* The collection pass that ends the slot's store, then the MutexGuard is
\* dropped as the call returns.
store_return(t) ==
    /\ pc[t] = "store_return"
    /\ collect
    /\ unlock(t)
    /\ Completed(t)
    /\ Reset(t)
    /\ Goto(t, "idle")
    /\ UNCHANGED <<slot, guards, wg, rs>>

\* LfrLock::swap: self.swap.lock().swap(new_value); the slot's swap clones
\* the outgoing value, then stores.
swap_call(t) ==
    /\ pc[t] = "idle" /\ CanWrite
    /\ \E v \in ArgVals : arg' = [arg EXCEPT ![t] = v]
    /\ Goto(t, "swap_lock")
    /\ UNCHANGED <<shared, slot, mutex, poisoned, cur, src, old, pub, guards, wg, done, rs>>

swap_lock(t) ==
    /\ pc[t] = "swap_lock"
    /\ lock(t)
    /\ Goto(t, "swap_clone")
    /\ UNCHANGED <<shared, slot, locals, guards, wg, done, rs>>

\* Faulty variant: swap hands back the incoming value.
swap_clone_new(t) ==
    /\ pc[t] = "swap_clone"
    /\ src' = [src EXCEPT ![t] = load]
    /\ old' = [old EXCEPT ![t] = arg[t]]
    /\ Goto(t, "swap_publish")
    /\ UNCHANGED <<shared, slot, mutex, poisoned, arg, cur, pub, guards, wg, done, rs>>

swap_clone(t) ==
    /\ pc[t] = "swap_clone"
    /\ src' = [src EXCEPT ![t] = load]
    /\ \E v \in Deref(load) : old' = [old EXCEPT ![t] = v]
    /\ Goto(t, "swap_publish")
    /\ UNCHANGED <<shared, slot, mutex, poisoned, arg, cur, pub, guards, wg, done, rs>>

swap_publish(t) ==
    /\ pc[t] = "swap_publish"
    /\ smr_store(t, arg[t], "swap", src[t])
    /\ Goto(t, "swap_return")
    /\ UNCHANGED <<slot, mutex, poisoned, arg, cur, src, old, guards, wg, done, rs>>

swap_return(t) ==
    /\ pc[t] = "swap_return"
    /\ collect
    /\ unlock(t)
    /\ Completed(t)
    /\ Reset(t)
    /\ Goto(t, "idle")
    /\ UNCHANGED <<slot, guards, wg, rs>>

\* LfrLock::update: self.swap.lock().update(f); the slot's update reads the
\* current value, applies f and stores the result.  (Its transient pin is
\* taken and released inside the one step update_read by the mutex holder,
\* the only thread that can run a collection pass, so no one observes it.)
update_call(t) ==
    /\ pc[t] = "idle" /\ CanWrite
    /\ Goto(t, "update_lock")
    /\ UNCHANGED <<shared, slot, mutex, poisoned, locals, guards, wg, done, rs>>

update_lock(t) ==
    /\ pc[t] = "update_lock"
    /\ lock(t)
    /\ Goto(t, "update_read")
    /\ UNCHANGED <<shared, slot, locals, guards, wg, done, rs>>

update_read(t) ==
    /\ pc[t] = "update_read"
    /\ src' = [src EXCEPT ![t] = load]
    /\ \E v \in Deref(load) : arg' = [arg EXCEPT ![t] = Inc(v)]
    /\ Goto(t, "update_publish")
    /\ UNCHANGED <<shared, slot, mutex, poisoned, cur, old, pub, guards, wg, done, rs>>

update_publish(t) ==
    /\ pc[t] = "update_publish"
    /\ smr_store(t, arg[t], "update", src[t])
    /\ Goto(t, "update_return")
    /\ UNCHANGED <<slot, mutex, poisoned, arg, cur, src, old, guards, wg, done, rs>>

update_return(t) ==
    /\ pc[t] = "update_return"
    /\ collect
    /\ unlock(t)
    /\ Completed(t)
    /\ Reset(t)
    /\ Goto(t, "idle")
    /\ UNCHANGED <<slot, guards, wg, rs>>

\* LfrLock::update_and_fetch: self.swap.lock().update(f); self.local.load()
\* The MutexGuard is a temporary of the first statement: it is dropped before
\* the load.
update_and_fetch_call(t) ==
    /\ pc[t] = "idle" /\ CanWrite /\ CanGuard(t)
    /\ Goto(t, "uaf_lock")
    /\ UNCHANGED <<shared, slot, mutex, poisoned, locals, guards, wg, done, rs>>

update_and_fetch_lock(t) ==
    /\ pc[t] = "uaf_lock"
    /\ lock(t)
    /\ Goto(t, "uaf_read")
    /\ UNCHANGED <<shared, slot, locals, guards, wg, done, rs>>

update_and_fetch_read(t) ==
    /\ pc[t] = "uaf_read"
    /\ src' = [src EXCEPT ![t] = load]
    /\ \E v \in Deref(load) : arg' = [arg EXCEPT ![t] = Inc(v)]
    /\ Goto(t, "uaf_publish")
    /\ UNCHANGED <<shared, slot, mutex, poisoned, cur, old, pub, guards, wg, done, rs>>

update_and_fetch_publish(t) ==
    /\ pc[t] = "uaf_publish"
    /\ smr_store(t, arg[t], "update_and_fetch", src[t])
    /\ Goto(t, "uaf_unlock")
    /\ UNCHANGED <<slot, mutex, poisoned, arg, cur, src, old, guards, wg, done, rs>>

update_and_fetch_unlock(t) ==
    /\ pc[t] = "uaf_unlock"
    /\ collect
    /\ unlock(t)
    /\ Completed(t)
    /\ Goto(t, "uaf_pin")
    /\ UNCHANGED <<slot, locals, guards, wg, rs>>

update_and_fetch_pin(t) ==
    /\ pc[t] = "uaf_pin"
    /\ slot' = pin(t)
    /\ Goto(t, "uaf_load")
    /\ UNCHANGED <<shared, mutex, poisoned, locals, guards, wg, done, rs>>

update_and_fetch_load(t) ==
    /\ pc[t] = "uaf_load"
    /\ guards' = [guards EXCEPT ![t] = Append(@, load)]
    /\ Reset(t)
    /\ Goto(t, "idle")
    /\ UNCHANGED <<shared, slot, mutex, poisoned, wg, done, rs>>

\* LfrLock::fetch_and_update: let old_guard = self.local.load();
\* self.swap.lock().update(f); old_guard
fetch_and_update_pin(t) ==
    /\ pc[t] = "idle" /\ CanWrite /\ CanGuard(t)
    /\ slot' = pin(t)
    /\ Goto(t, "fau_load")
    /\ UNCHANGED <<shared, mutex, poisoned, locals, guards, wg, done, rs>>

fetch_and_update_load(t) ==
    /\ pc[t] = "fau_load"
    /\ cur' = [cur EXCEPT ![t] = load]
    /\ Goto(t, "fau_lock")
    /\ UNCHANGED <<shared, slot, mutex, poisoned, arg, src, old, pub, guards, wg, done, rs>>

fetch_and_update_lock(t) ==
    /\ pc[t] = "fau_lock"
    /\ lock(t)
    /\ Goto(t, "fau_read")
    /\ UNCHANGED <<shared, slot, locals, guards, wg, done, rs>>

fetch_and_update_read(t) ==
    /\ pc[t] = "fau_read"
    /\ src' = [src EXCEPT ![t] = load]
    /\ \E v \in Deref(load) : arg' = [arg EXCEPT ![t] = Inc(v)]
    /\ Goto(t, "fau_publish")
    /\ UNCHANGED <<shared, slot, mutex, poisoned, cur, old, pub, guards, wg, done, rs>>

fetch_and_update_publish(t) ==
    /\ pc[t] = "fau_publish"
    /\ smr_store(t, arg[t], "fetch_and_update", src[t])
    /\ Goto(t, "fau_return")
    /\ UNCHANGED <<slot, mutex, poisoned, arg, cur, src, old, guards, wg, done, rs>>

fetch_and_update_return(t) ==
    /\ pc[t] = "fau_return"
    /\ collect
    /\ unlock(t)
    /\ Completed(t)
    /\ guards' = [guards EXCEPT ![t] = Append(@, cur[t])]
    /\ Reset(t)
    /\ Goto(t, "idle")
    /\ UNCHANGED <<slot, wg, rs>>

\* -------------------------------------------------- WriteGuard (lib.rs)
\* WriteGuard::new, after the lock: let guard = lock.local.load();
\* let data = (*guard).clone(); the guard is dropped as new returns.  The pin
\* and the unpin of the handle happen while this thread holds the mutex, so
\* no collection pass runs between them: what they leave behind is the
\* unpinned slot.
clone_current(t, via) ==
    /\ slot' = unpin(t)
    /\ \E v \in Deref(load) :
           wg' = [wg EXCEPT ![t] = [held |-> TRUE, data |-> v, src |-> load,
                                    muts |-> 0, via |-> via]]
       
\* LfrLock::write: WriteGuard::new(self)
write_call(t) ==
    /\ pc[t] = "idle" /\ CanWrite
    /\ Goto(t, "write_lock")
    /\ UNCHANGED <<shared, slot, mutex, poisoned, locals, guards, wg, done, rs>>

write_lock(t) ==
    /\ pc[t] = "write_lock"
    /\ lock(t)
    /\ Goto(t, "write_clone")
    /\ UNCHANGED <<shared, slot, locals, guards, wg, done, rs>>

write_clone(t) ==
    /\ pc[t] = "write_clone"
    /\ clone_current(t, "write")
    /\ Goto(t, "idle")
    /\ UNCHANGED <<shared, mutex, poisoned, locals, guards, done, rs>>

\* Faulty variant: try_write loads (pins) before it tries the mutex and
\* drops that guard when it gives up.
try_write_lock_pins(t) ==
    /\ pc[t] = "idle"
    /\ IF try_lock_ok
       THEN /\ CanWrite
            /\ mutex' = {t} /\ UNCHANGED poisoned
            /\ Goto(t, "try_write_clone")
            /\ UNCHANGED slot
       ELSE /\ Goto(t, "try_write_none")
            /\ slot' = unpin(t)
            /\ UNCHANGED <<mutex, poisoned>>
    /\ UNCHANGED <<shared, locals, guards, wg, done, rs>>

\* LfrLock::try_write: let swap_guard = self.swap.try_lock().ok()?;
try_write_lock(t) ==
    /\ pc[t] = "idle"
    /\ IF try_lock_ok
       THEN /\ CanWrite
            /\ mutex' = {t} /\ UNCHANGED poisoned
            /\ Goto(t, "try_write_clone")
       ELSE /\ Goto(t, "try_write_none")
            /\ UNCHANGED <<mutex, poisoned>>
    /\ UNCHANGED <<shared, slot, locals, guards, wg, done, rs>>

\* ...ok()? : the call returns None.
try_write_none(t) ==
    /\ pc[t] = "try_write_none"
    /\ Goto(t, "idle")
    /\ UNCHANGED <<shared, slot, mutex, poisoned, locals, guards, wg, done, rs>>

try_write_clone(t) ==
    /\ pc[t] = "try_write_clone"
    /\ clone_current(t, "try_write")
    /\ Goto(t, "idle")
    /\ UNCHANGED <<shared, mutex, poisoned, locals, guards, done, rs>>

\* Faulty variant: the guard hands out the live value itself, so the caller
\* mutates it in place.
deref_mut_in_place(t) ==
    /\ pc[t] = "idle" /\ wg[t].held /\ wg[t].muts < MaxMuts
    /\ wg' = [wg EXCEPT ![t].data = Inc(@), ![t].muts = @ + 1]
    /\ heap' = [heap EXCEPT ![live] = Inc(@)]
    /\ UNCHANGED <<live, freed, retired, epoch, log, slot, mutex, poisoned, pc, locals,
                   guards, done, rs>>

\* DerefMut for WriteGuard: &mut self.data; the caller mutates the working
\* copy (write_guard.value += 1).
deref_mut(t) ==
    /\ pc[t] = "idle" /\ wg[t].held /\ wg[t].muts < MaxMuts
    /\ wg' = [wg EXCEPT ![t].data = Inc(@), ![t].muts = @ + 1]
    /\ UNCHANGED <<shared, slot, mutex, poisoned, pc, locals, guards, done, rs>>

\* Faulty variant: the drop commits the value the guard was cloned from.
take_stale(t) == heap[wg[t].src]

\* Drop for WriteGuard: ManuallyDrop::take(&mut self.data)
take_data(t) == wg[t].data

\* self.swap_guard.store(new_data)
drop_store(t) ==
    /\ pc[t] = "idle" /\ wg[t].held
    /\ smr_store(t, take_data(t), "guard", wg[t].src)
    /\ Goto(t, "drop_return")
    /\ UNCHANGED <<slot, mutex, poisoned, arg, cur, src, old, guards, wg, done, rs>>

\* Faulty variant: the commit ends without a collection pass.
drop_return_no_collect(t) ==
    /\ pc[t] = "drop_return"
    /\ unlock(t)
    /\ Completed(t)
    /\ wg' = [wg EXCEPT ![t] = NoGuard]
    /\ Reset(t)
    /\ Goto(t, "idle")
    /\ UNCHANGED <<shared, slot, guards, rs>>

\* The store's collection pass, then the swap_guard field is dropped.
drop_return(t) ==
    /\ pc[t] = "drop_return"
    /\ collect
    /\ unlock(t)
    /\ Completed(t)
    /\ wg' = [wg EXCEPT ![t] = NoGuard]
    /\ Reset(t)
    /\ Goto(t, "idle")
    /\ UNCHANGED <<slot, guards, rs>>

\* ---------------------------------------------------------------- panics
\* The closure passed to update panics (lib.rs:86): the slot's update has read
\* the current value and called f with it; nothing has been stored.
update_panic(t) ==
    /\ pc[t] = "update_read"
    /\ src' = [src EXCEPT ![t] = load]
    /\ Goto(t, "unwind")
    /\ UNCHANGED <<shared, slot, mutex, poisoned, arg, cur, old, pub, guards, wg,
                   done, rs>>

\* The same in update_and_fetch (lib.rs:101).
update_and_fetch_panic(t) ==
    /\ pc[t] = "uaf_read"
    /\ src' = [src EXCEPT ![t] = load]
    /\ Goto(t, "unwind")
    /\ UNCHANGED <<shared, slot, mutex, poisoned, arg, cur, old, pub, guards, wg,
                   done, rs>>

\* The same in fetch_and_update (lib.rs:120), which holds old_guard.
fetch_and_update_panic(t) ==
    /\ pc[t] = "fau_read"
    /\ src' = [src EXCEPT ![t] = load]
    /\ Goto(t, "unwind")
    /\ UNCHANGED <<shared, slot, mutex, poisoned, arg, cur, old, pub, guards, wg,
                   done, rs>>

\* Faulty variant: the unwinding leaves the MutexGuard behind.
unwind_leak(t) ==
    /\ pc[t] = "unwind"
    /\ guards' = [guards EXCEPT ![t] = <<>>]
    /\ slot' = unpin(t)
    /\ Reset(t)
    /\ Goto(t, "panicked")
    /\ UNCHANGED <<shared, mutex, poisoned, wg, done, rs>>

\* Unwinding out of the call: the MutexGuard temporary of the statement is
\* dropped (lib.rs:402, by a panicking thread), then old_guard and the read
\* guards the thread holds.  The thread is over.
unwind(t) ==
    /\ pc[t] = "unwind"
    /\ unlock_panicking(t)
    /\ guards' = [guards EXCEPT ![t] = <<>>]
    /\ slot' = unpin(t)
    /\ Reset(t)
    /\ Goto(t, "panicked")
    /\ UNCHANGED <<shared, wg, done, rs>>

\* Faulty variant: a drop that skips the store while the thread is panicking.
drop_store_abandon(t) ==
    /\ pc[t] = "idle" /\ wg[t].held
    /\ Goto(t, "drop_unwind")
    /\ UNCHANGED <<shared, slot, mutex, poisoned, locals, guards, wg, done, rs>>

\* A panic in the scope of a WriteGuard: unwinding runs Drop for WriteGuard
\* (lib.rs:304-315), which stores the working copy as it stands.
drop_store_unwinding(t) ==
    /\ pc[t] = "idle" /\ wg[t].held
    /\ smr_store(t, take_data(t), "unwind", wg[t].src)
    /\ Goto(t, "drop_unwind")
    /\ UNCHANGED <<slot, mutex, poisoned, arg, cur, src, old, guards, wg, done,
                   rs>>

\* The store's collection pass, then the swap_guard field is dropped by the
\* panicking thread, then the read guards it holds.  The thread is over.
drop_unwind(t) ==
    /\ pc[t] = "drop_unwind"
    /\ collect
    /\ unlock_panicking(t)
    /\ Completed(t)
    /\ wg' = [wg EXCEPT ![t] = NoGuard]
    /\ guards' = [guards EXCEPT ![t] = <<>>]
    /\ slot' = unpin(t)
    /\ Reset(t)
    /\ Goto(t, "panicked")
    /\ UNCHANGED rs

\* ------------------------------------------------------------ behaviours
Next ==
    \E t \in Threads :
        \/ read_pin(t) \/ read_load(t) \/ read_guard_drop(t)
        \/ get_pin(t) \/ get_load(t) \/ get_clone(t)
        \/ map_pin(t) \/ map_load(t) \/ map_apply(t)
        \/ filter_pin(t) \/ filter_load(t) \/ filter_test(t)
        \/ store_call(t) \/ store_lock(t) \/ store_publish(t) \/ store_return(t)
        \/ swap_call(t) \/ swap_lock(t) \/ swap_clone(t) \/ swap_publish(t)
        \/ swap_return(t)
        \/ update_call(t) \/ update_lock(t) \/ update_read(t)
        \/ update_publish(t) \/ update_return(t)
        \/ update_and_fetch_call(t) \/ update_and_fetch_lock(t)
        \/ update_and_fetch_read(t) \/ update_and_fetch_publish(t)
        \/ update_and_fetch_unlock(t) \/ update_and_fetch_pin(t)
        \/ update_and_fetch_load(t)
        \/ fetch_and_update_pin(t) \/ fetch_and_update_load(t)
        \/ fetch_and_update_lock(t) \/ fetch_and_update_read(t)
        \/ fetch_and_update_publish(t) \/ fetch_and_update_return(t)
        \/ write_call(t) \/ write_lock(t) \/ write_clone(t)
        \/ try_write_lock(t) \/ try_write_none(t) \/ try_write_clone(t)
        \/ deref_mut(t) \/ drop_store(t) \/ drop_return(t)
        \/ update_panic(t) \/ update_and_fetch_panic(t)
        \/ fetch_and_update_panic(t) \/ unwind(t)
        \/ drop_store_unwinding(t) \/ drop_unwind(t)

Spec == Init /\ [][Next]_vars

\* The steps of a write call between taking the mutex and letting go of it
\* (for a WriteGuard: the steps of its commit).
WriterStep(t) ==
    \/ store_publish(t) \/ store_return(t)
    \/ swap_clone(t) \/ swap_publish(t) \/ swap_return(t)
    \/ update_read(t) \/ update_publish(t) \/ update_return(t)
    \/ update_and_fetch_read(t) \/ update_and_fetch_publish(t)
    \/ update_and_fetch_unlock(t)
    \/ fetch_and_update_read(t) \/ fetch_and_update_publish(t)
    \/ fetch_and_update_return(t)
    \/ drop_return(t)

\* Writers against readers that pin and stay pinned as long as they like:
\* read() and the drop of its guard, and every write operation.
WriterNext ==
    \E t \in Threads :
        \/ read_pin(t) \/ read_load(t) \/ read_guard_drop(t)
        \/ store_call(t) \/ store_lock(t)
        \/ swap_call(t) \/ swap_lock(t)
        \/ update_call(t) \/ update_lock(t)
        \/ update_and_fetch_call(t) \/ update_and_fetch_lock(t)
        \/ update_and_fetch_pin(t) \/ update_and_fetch_load(t)
        \/ fetch_and_update_pin(t) \/ fetch_and_update_load(t)
        \/ fetch_and_update_lock(t)
        \/ write_call(t) \/ write_lock(t) \/ write_clone(t)
        \/ deref_mut(t) \/ drop_store(t)
        \/ WriterStep(t)

\* A thread that is running a write call under the mutex is scheduled: it is
\* not waiting for anything, so its next step is eventually taken.  Nothing
\* is assumed of readers, of the callers' decisions to start a call or to
\* drop a guard, or of threads waiting in Mutex::lock.
WriterSpec ==
    Init /\ [][WriterNext]_vars /\ \A t \in Threads : WF_vars(WriterStep(t))

\* ------------------------------------------------------------ properties
Last(sq) == sq[Len(sq)]
Other(t) == Threads \ {t}
Updates == {"update", "update_and_fetch", "fetch_and_update"}

\* A read operation of t loads the pointer in this step.
ReadLoads(t) ==
    \/ pc[t] = "read_load" /\ pc'[t] = "idle"
    \/ pc[t] = "get_load" /\ pc'[t] = "get_clone"
    \/ pc[t] = "map_load" /\ pc'[t] = "map_apply"
    \/ pc[t] = "filter_load" /\ pc'[t] = "filter_test"
\* The version that load yields.
Loaded(t) == IF pc[t] = "read_load" THEN Last(guards'[t]) ELSE cur'[t]

\* C1 -- No lost updates: the value passed to each update closure is the
\* value published by the immediately preceding write in the mutex order,
\* the update publishes that value plus one, and when every write so far was
\* an update(|v| v + 1) the live value is the initial value plus the number
\* of updates.
C1_NoLostUpdates ==
    /\ \A i \in 2..Len(log) :
           log[i].op = "update" => /\ log[i].from = i - 1
                                   /\ log[i].val = Inc(log[i - 1].val)
    /\ (\A i \in 2..Len(log) : log[i].op = "update")
           => /\ live = Len(log)
              /\ heap[live] = InitVal + (Len(log) - 1)

\* Two threads update at once: one has published, the other waits.
C1_Witness ==
    \E t \in Threads : \E u \in Other(t) :
        /\ pc[t] = "update_return" /\ log[pub[t]].op = "update"
        /\ pc[u] = "update_lock"

C3_ReadAfterWrite ==
    [][\A t \in Threads :
          /\ (pc[t] = "store_return" /\ pc'[t] = "idle")
                => /\ pub[t] \in 2..Len(log)
                   /\ log[pub[t]].op = "store"
                   /\ heap[pub[t]] = arg[t]
                   /\ live >= pub[t]
                   /\ done' >= pub[t]
          /\ ReadLoads(t)
                => \A i \in 1..rs[t] : log[i].op = "store" => Loaded(t) >= i
      ]_vars

\* A read is called after a store returned and a later write was published.
C3_Witness ==
    \E t \in Threads :
        pc[t] = "read_load" /\ rs[t] = 2 /\ log[2].op = "store" /\ live = 3

\* How version i came to its value: in full, from one write.
WholeValue(i) ==
    CASE log[i].op \in {"store", "swap"} -> log[i].val \in ArgVals
      [] log[i].op \in Updates -> log[i].val = Inc(log[log[i].from].val)
      [] log[i].op \in {"guard", "unwind"} ->
             \E k \in 0..MaxMuts : log[i].val = log[log[i].from].val + k
      [] OTHER -> FALSE

\* C4 -- No intermediate write state is observable: the payload a read
\* operation sees is the value of one published version, unchanged since its
\* publish (the initial value, the argument of store/swap, the result of an
\* update closure, or a write guard's working copy at its drop); a working
\* copy under mutation is in no cell a reader can reach.
C4_NoIntermediateState ==
    /\ live \in 1..Len(heap) /\ live \notin freed
    /\ heap[live] = log[live].val
    /\ \A i \in 2..Len(log) : WholeValue(i)
    /\ \A t \in Threads :
           /\ cur[t] # 0 => /\ get_result(t) = {log[cur[t]].val}
                            /\ map_result(t) = {MapFn(log[cur[t]].val)}
           /\ \A k \in 1..Len(guards[t]) :
                  guards[t][k] \notin freed
                      => heap[guards[t][k]] = log[guards[t][k]].val

\* A reader is about to clone the value a WriteGuard was cloned from while
\* the guard's working copy has already been mutated.
C4_Witness ==
    \E t \in Threads : \E u \in Other(t) :
        /\ wg[t].held /\ wg[t].muts > 0
        /\ pc[u] = "get_clone" /\ cur[u] = wg[t].src

\* C5 -- Reads never block: whatever the state of the write mutex, a thread
\* can start read(), get(), map() or filter(), and every step of a read
\* operation in progress can be taken; an operation is over after at most
\* three steps of its own (pin, load, use).
C5_ReadsNeverBlock ==
    \A t \in Threads :
        /\ pc[t] = "idle" => ENABLED get_pin(t) /\ ENABLED map_pin(t)
        /\ pc[t] = "idle" /\ CanGuard(t)
               => ENABLED read_pin(t) /\ ENABLED filter_pin(t)
        /\ pc[t] = "read_load" => ENABLED read_load(t)
        /\ pc[t] = "get_load" => ENABLED get_load(t)
        /\ pc[t] = "get_clone" => ENABLED get_clone(t)
        /\ pc[t] = "map_load" => ENABLED map_load(t)
        /\ pc[t] = "map_apply" => ENABLED map_apply(t)
        /\ pc[t] = "filter_load" => ENABLED filter_load(t)
        /\ pc[t] = "filter_test" => ENABLED filter_test(t)

\* A read is in progress while another thread sits on a WriteGuard.
C5_Witness ==
    \E t \in Threads : \E u \in Other(t) :
        /\ wg[u].held /\ pc[u] = "idle" /\ mutex = {u}
        /\ pc[t] = "read_load"

\* C6 -- Commit on drop: the drop of a WriteGuard makes the working copy,
\* with the mutations made through it, the live value; a read operation
\* called after the drop loads that version or a later one.
C6_CommitOnDrop ==
    [][\A t \in Threads :
          /\ (pc[t] = "idle" /\ pc'[t] = "drop_return")
                => /\ live' = Len(heap') /\ live' = live + 1
                   /\ heap'[live'] = wg[t].data
                   /\ log'[live'].op = "guard"
                   /\ pub'[t] = live'
          /\ (pc[t] = "drop_return" /\ pc'[t] = "idle")
                => /\ heap[pub[t]] = wg[t].data
                   /\ done' >= pub[t]
                   /\ ~wg'[t].held
          /\ ReadLoads(t)
                => \A i \in 1..rs[t] :
                       log[i].op = "guard"
                           => /\ Loaded(t) >= i
                              /\ Loaded(t) = i => heap[i] = log[i].val
      ]_vars

\* A guard from try_write, mutated, has been dropped; a read called after
\* the drop is about to load.
C6_Witness ==
    \E t \in Threads :
        /\ pc[t] = "read_load" /\ rs[t] = 2
        /\ log[2].op = "guard" /\ log[2].val = Inc(InitVal)

\* C7 -- swap(v) returns the immediately preceding value: the value a swap
\* returns is the payload of the version its own publish replaced, v is the
\* live value when it is done, and no version is handed back by two swaps.
C7_SwapReturnsPrevious ==
    /\ \A t \in Threads :
           pc[t] = "swap_return"
               => /\ src[t] = pub[t] - 1
                  /\ old[t] = log[pub[t] - 1].val
                  /\ live = pub[t] /\ heap[live] = arg[t]
    /\ \A i \in 2..Len(log) : log[i].op = "swap" => log[i].from = i - 1
    /\ \A i, j \in 2..Len(log) :
           (log[i].op = "swap" /\ log[j].op = "swap" /\ i # j)
               => log[i].from # log[j].from

\* swap(v1) then swap(v2), v1 # v2: the second swap returns v1.
C7_Witness ==
    \E t \in Threads :
        /\ pc[t] = "swap_return" /\ pub[t] = 3
        /\ log[2].op = "swap" /\ old[t] = log[2].val /\ old[t] # arg[t]

\* C8 -- try_write fails only under contention: it returns None exactly when
\* the mutex is held at the moment of the call, takes the mutex and returns
\* a WriteGuard when it is free, and never waits.
C8_TryWriteOnlyContention ==
    [][\A t \in Threads :
          /\ pc[t] = "idle" /\ (mutex # {} \/ CanWrite)
                => ENABLED try_write_lock(t)
          /\ pc[t] = "try_write_none" => ENABLED try_write_none(t)
          /\ pc[t] = "try_write_clone" => ENABLED try_write_clone(t)
          /\ (pc[t] = "idle" /\ pc'[t] = "try_write_none")
                => mutex # {} /\ UNCHANGED mutex
          /\ (pc[t] = "idle" /\ pc'[t] = "try_write_clone")
                => mutex = {} /\ mutex' = {t}
          /\ (pc[t] = "try_write_clone" /\ pc'[t] = "idle")
                => wg'[t].held /\ mutex' = {t}
      ]_vars

\* try_write returns None while another thread holds a guard from write().
C8_Witness ==
    \E t \in Threads : \E u \in Other(t) :
        /\ pc[t] = "try_write_none"
        /\ wg[u].held /\ wg[u].via = "write"

\* C9 -- fetch_and_update(f) returns a guard to the value f received: the
\* guard refers to the version this call's store replaced.
C9_FetchAndUpdateOld ==
    \A t \in Threads :
        pc[t] = "fau_return" => cur[t] = src[t] /\ src[t] = pub[t] - 1

\* C10 -- update_and_fetch(f) returns a guard to the version this call
\* published.
C10_UpdateAndFetchNew ==
    [][\A t \in Threads :
          (pc[t] = "uaf_load" /\ pc'[t] = "idle") => Last(guards'[t]) = pub[t]
      ]_vars

\* Positions at which a call waits in Mutex::lock.
LockPcs == {"store_lock", "swap_lock", "update_lock", "uaf_lock", "fau_lock",
            "write_lock"}

\* C11 -- Deadlock freedom: no thread waits for the write mutex forever.  A
\* wait ends when the holder lets go, which a holder inside a write call or
\* in front of its WriteGuard's drop can always do; so no thread waits in
\* Mutex::lock while the holder of the mutex is itself waiting in Mutex::lock
\* (a thread that calls a blocking write while it holds a WriteGuard).
C11_DeadlockFreedom ==
    \A t \in Threads :
        pc[t] \in LockPcs => \A h \in mutex : pc[h] \notin LockPcs

\* C12 -- A panic inside the closure passed to update, update_and_fetch or
\* fetch_and_update abandons the write: while the call unwinds and when it
\* is gone, no version has been published or retired by it, the value that
\* was live is live and unchanged, and the unwinding releases the mutex.
C12_ClosurePanicAbandons ==
    [][\A t \in Threads :
          /\ pc[t] = "unwind"
                => /\ pub[t] = 0
                   /\ live = src[t] /\ Len(heap) = src[t]
                   /\ epoch = src[t] - 1
                   /\ heap[live] = log[live].val /\ live \notin freed
                   /\ \A i \in 1..Len(retired) : retired[i].ver # live
                   /\ mutex = {t}
                   /\ ENABLED unwind(t)
          /\ (pc[t] = "unwind" /\ pc'[t] = "panicked")
                => /\ UNCHANGED <<live, heap, freed, retired, epoch, log>>
                   /\ mutex' = {}
      ]_vars

\* After one write, the closure of an update panics while the other thread
\* waits for the mutex.
C12_Witness ==
    \E t \in Threads : \E u \in Other(t) :
        pc[t] = "unwind" /\ src[t] = 2 /\ pc[u] \in LockPcs

\* C13 -- A panic inside a WriteGuard's scope abandons the write: the
\* unwinding publishes nothing, so the version the guard was cloned from is
\* still the live one when the mutex is about to be released, and no version
\* of the write order is a working copy left behind by a panic.
C13_GuardPanicAbandons ==
    /\ \A t \in Threads :
           pc[t] = "drop_unwind" => pub[t] = 0 /\ live = wg[t].src
    /\ \A i \in 2..Len(log) : log[i].op # "unwind"

\* C14 -- The commit runs however a WriteGuard's scope is left: once the
\* drop has stored (on scope exit, early return included, or during
\* unwinding) and before the mutex is released, the live value is the
\* working copy as it stood when the scope was left, published as the
\* successor of the version the guard was cloned from; and a thread that
\* holds a guard can always take that step.
C14_CommitOnUnwind ==
    \A t \in Threads :
        /\ pc[t] \in {"drop_unwind", "drop_return"}
               => /\ pub[t] = live /\ live = Len(heap)
                  /\ heap[live] = wg[t].data
                  /\ log[live].from = wg[t].src /\ live = wg[t].src + 1
                  /\ mutex = {t}
        /\ pc[t] = "drop_unwind" => log[live].op = "unwind"
        /\ pc[t] = "drop_return" => log[live].op = "guard"
        /\ (pc[t] = "idle" /\ wg[t].held)
               => ENABLED drop_store_unwinding(t) /\ ENABLED drop_store(t)

\* A guard is mutated, then its scope is left by a panic: the unwinding has
\* stored the working copy and still holds the mutex.
C14_Witness ==
    \E t \in Threads :
        /\ pc[t] = "drop_unwind" /\ wg[t].muts > 0
        /\ heap[live] = Inc(heap[wg[t].src])

\* C15 -- No poisoning: a thread that panicked while it held the write mutex
\* does not keep it, and the poison flag its MutexGuard left behind makes no
\* difference to later writers: whenever no thread holds the mutex, every
\* thread waiting in Mutex::lock can take it and try_write takes it and
\* goes on to build its guard.
C15_NoPoisoning ==
    /\ \A t \in Threads : pc[t] = "panicked" => t \notin mutex /\ poisoned
    /\ (poisoned /\ mutex = {})
           => /\ try_lock_ok
              /\ \A t \in Threads :
                     /\ pc[t] = "store_lock" => ENABLED store_lock(t)
                     /\ pc[t] = "swap_lock" => ENABLED swap_lock(t)
                     /\ pc[t] = "update_lock" => ENABLED update_lock(t)
                     /\ pc[t] = "uaf_lock" => ENABLED update_and_fetch_lock(t)
                     /\ pc[t] = "fau_lock" => ENABLED fetch_and_update_lock(t)
                     /\ pc[t] = "write_lock" => ENABLED write_lock(t)
                     /\ (pc[t] = "idle" /\ CanWrite)
                            => ENABLED (try_write_lock(t)
                                        /\ pc'[t] = "try_write_clone")

\* One thread has panicked under the mutex; afterwards the other has taken
\* the mutex with write() and holds a WriteGuard.
C15_Witness ==
    \E t \in Threads : \E u \in Other(t) :
        /\ pc[t] = "panicked" /\ poisoned
        /\ wg[u].held /\ wg[u].via = "write" /\ mutex = {u}

\* A step of map or filter by thread t.
MapFilterStep(t) ==
    \/ pc[t] = "idle" /\ pc'[t] \in {"map_load", "filter_load"}
    \/ pc[t] = "map_load" /\ pc'[t] = "map_apply"
    \/ pc[t] = "map_apply" /\ pc'[t] = "idle"
    \/ pc[t] = "filter_load" /\ pc'[t] = "filter_test"
    \/ pc[t] = "filter_test" /\ pc'[t] = "idle"

\* C16 -- map and filter are read-only: no step of either call changes the
\* live pointer, any cell, the global epoch, the retired list, the freed
\* set, the mutex or another thread's slot, whatever the closure returns, so
\* a get() that follows reads what it would have read before; and filter
\* returns Some(guard), the guard it loaded, exactly when the predicate is
\* true on the payload read through that guard, None otherwise.
C16_MapFilterReadOnly ==
    [][\A t \in Threads :
          /\ MapFilterStep(t)
                => /\ UNCHANGED <<live, heap, epoch, retired, freed, log>>
                   /\ UNCHANGED <<mutex, poisoned, wg>>
                   /\ \A u \in Other(t) : slot'[u] = slot[u]
                                          /\ guards'[u] = guards[u]
          /\ (pc[t] = "filter_test" /\ pc'[t] = "idle")
                => /\ guards'[t] # guards[t]
                      => /\ guards'[t] = Append(guards[t], cur[t])
                         /\ \E v \in Deref(cur[t]) : Pred(v)
                         /\ cur[t] \notin freed => Pred(heap[cur[t]])
                   /\ guards'[t] = guards[t]
                      => /\ \E v \in Deref(cur[t]) : ~Pred(v)
                         /\ cur[t] \notin freed => ~Pred(heap[cur[t]])
          /\ (pc[t] = "map_apply" /\ pc'[t] = "idle")
                => guards'[t] = guards[t]
      ]_vars

\* Two filters are about to return, one on a value the predicate accepts,
\* one on a value it rejects.
C16_Witness ==
    \E t \in Threads : \E u \in Other(t) :
        /\ pc[t] = "filter_test" /\ pc[u] = "filter_test"
        /\ cur[t] \notin freed /\ Pred(heap[cur[t]])
        /\ cur[u] \notin freed /\ ~Pred(heap[cur[u]])

\* A WriteGuard of t that has not stored yet.
Uncommitted(t) == wg[t].held /\ pc[t] \notin {"drop_return", "drop_unwind"}

\* C17 -- Write guards are atomic read-modify-write: the working copy is
\* cloned while the thread holds the mutex, from the version that is live
\* then; until the guard commits, the thread keeps the mutex and that
\* version stays live, so every guard's commit replaces exactly the version
\* it was cloned from; and when every write so far was a guard incremented
\* once, the live value is the initial value plus the number of guards.
C17_GuardReadModifyWrite ==
    /\ \A t \in Threads :
           /\ pc[t] \in {"write_clone", "try_write_clone"}
                  => mutex = {t} /\ ~wg[t].held
           /\ Uncommitted(t)
                  => /\ mutex = {t}
                     /\ live = wg[t].src /\ Len(heap) = wg[t].src
                     /\ wg[t].data = heap[live] + wg[t].muts
    /\ \A i \in 2..Len(log) :
           log[i].op \in {"guard", "unwind"} => log[i].from = i - 1
    /\ (\A i \in 2..Len(log) :
           log[i].op = "guard" /\ log[i].val = Inc(log[log[i].from].val))
           => /\ live = Len(log)
              /\ heap[live] = InitVal + (Len(log) - 1)

\* Two guards, each incremented once, have committed one after the other.
C17_Witness ==
    \E t \in Threads :
        /\ pc[t] = "drop_return" /\ pub[t] = 3 /\ wg[t].via = "write"
        /\ log[2].op = "guard" /\ log[3].op = "guard"
        /\ heap[live] = InitVal + 2

\* C18 -- Single writer at a time: at most one thread (one instance of the
\* container) holds the write mutex, at most one WriteGuard exists and its
\* owner is the holder, and every step that changes the live pointer, a
\* cell, the global epoch, the retired list or the freed set is a step of
\* the thread that holds the mutex.
C18_SingleWriter ==
    [][/\ Cardinality(mutex) <= 1
       /\ Cardinality({t \in Threads : wg[t].held}) <= 1
       /\ \A t \in Threads : wg[t].held => mutex = {t}
       /\ (live' # live \/ heap' # heap \/ epoch' # epoch
              \/ retired' # retired \/ freed' # freed)
             => \E t \in mutex : pc'[t] # pc[t]
      ]_vars

\* A WriteGuard's drop has published while the other thread's try_write
\* has just been refused.
C18_Witness ==
    \E t \in Threads : \E u \in Other(t) :
        /\ pc[t] = "drop_return" /\ wg[t].held /\ live = pub[t]
        /\ pc[u] = "try_write_none"

CollectStep(t) ==
    \/ pc[t] \in {"store_return", "swap_return", "update_return", "fau_return",
                  "drop_return"} /\ pc'[t] = "idle"
    \/ pc[t] = "uaf_unlock" /\ pc'[t] = "uaf_pin"
    \/ pc[t] = "drop_unwind" /\ pc'[t] = "panicked"

\* The retirement epoch e is below the epoch of every pinned reader (of
\* none, when no reader is pinned).
BelowAllPinned(e) == \A u \in Threads : slot[u].active => e < slot[u].epoch

\* C20 -- Collection rule: a collection pass frees exactly the retired
\* entries whose retirement epoch is strictly less than the epoch of every
\* currently pinned reader (all of them when no reader is pinned); an entry
\* whose retirement epoch equals or exceeds some pinned reader's epoch
\* stays in the retired list, in its place; nothing is freed by any other
\* step.
C20_CollectionRule ==
    [][/\ \A t \in Threads :
            CollectStep(t)
               => /\ \A i \in 1..Len(retired) :
                         BelowAllPinned(retired[i].epoch)
                             <=> retired[i].ver \in freed'
                  /\ freed' = freed \cup {retired[i].ver : i \in
                         {j \in 1..Len(retired) :
                              BelowAllPinned(retired[j].epoch)}}
                  /\ \A i \in 1..Len(retired') :
                         /\ ~BelowAllPinned(retired'[i].epoch)
                         /\ \E j \in i..Len(retired) : retired[j] = retired'[i]
                  /\ Len(retired') = Cardinality({j \in 1..Len(retired) :
                                          ~BelowAllPinned(retired[j].epoch)})
       /\ freed' # freed => \E t \in Threads : CollectStep(t)
      ]_vars

\* Every collection pass is over and an entry is still retired: its
\* retirement epoch equals the epoch a pinned reader recorded.
C20_Witness ==
    /\ mutex = {}
    /\ \A t \in Threads : pc[t] \in {"idle", "panicked"}
    /\ \E i \in 1..Len(retired) : \E u \in Threads :
           /\ slot[u].active /\ slot[u].epoch = retired[i].epoch
           /\ retired[i].ver \notin freed

\* Positions from which the next step of the call is its collection pass.
CollectPcs == {"store_return", "swap_return", "update_return", "fau_return",
               "uaf_unlock", "drop_return", "drop_unwind"}

\* C21 -- Retired versions are eventually freed.  Every publish is followed
\* by a collection pass of the same call, before it lets go of the mutex;
\* a pass that runs while no reader
\* is pinned empties the retired list; a pass that runs while readers are
\* pinned keeps an entry only if a reader recorded an epoch at or below the
\* entry's retirement epoch, so the list is then no longer than the number
\* of publishes since the oldest pin; and no retirement epoch exceeds the
\* global epoch, so a reader that unpins and pins again holds back no entry
\* retired before its new pin's epoch.
C21_RetiredEventuallyFreed ==
    [][/\ \A t \in Threads :
              (pub[t] # 0 /\ pc[t] \notin {"uaf_pin", "uaf_load"})
                 => pc[t] \in CollectPcs /\ mutex = {t}
       /\ \A i \in 1..Len(retired) :
              /\ retired[i].epoch <= epoch
              /\ \A j \in 1..(i - 1) : retired[j].epoch < retired[i].epoch
       /\ \A t \in Threads :
              CollectStep(t)
                 => /\ Pinned = {} => retired' = <<>>
                    /\ Pinned # {}
                          => Len(retired') <= epoch - min_active_epoch + 1
                    /\ \A i \in 1..Len(retired') :
                           \E u \in Pinned :
                               slot[u].epoch <= retired'[i].epoch
      ]_vars

\* A pass kept an entry for a pinned reader; the reader has unpinned, a
\* second version has been retired and the next pass is about to run.
C21_Witness ==
    \E t \in Threads :
        pc[t] \in CollectPcs /\ Len(retired) = 2 /\ Pinned = {}

\* Positions of a write call that holds the mutex, with the number of steps
\* of its own the call is away from letting go of it.
Rank(p) ==
    CASE p \in {"swap_clone", "update_read", "uaf_read", "fau_read"} -> 3
      [] p \in {"store_publish", "swap_publish", "update_publish",
                "uaf_publish", "fau_publish"} -> 2
      [] p \in {"store_return", "swap_return", "update_return", "uaf_unlock",
                "fau_return", "drop_return"} -> 1
      [] OTHER -> 0

\* C22 -- No write waits on a reader: whatever the reader slots hold, a
\* write call that has taken the mutex can take its next step, each of its
\* steps brings it closer to the release (at most three steps: read,
\* publish, collect and release), the release leaves its version published,
\* and so the call eventually lets go of the mutex even if readers stay
\* pinned forever.
C22_NoWriteWaitsOnReader ==
    /\ [][\A t \in Threads :
             /\ Rank(pc[t]) > 0 => t \in mutex /\ ENABLED WriterStep(t)
             /\ (Rank(pc[t]) > 0 /\ pc'[t] # pc[t])
                    => /\ Rank(pc'[t]) = Rank(pc[t]) - 1
                       /\ Rank(pc'[t]) = 0 => t \notin mutex' /\ live >= pub[t]
                                               /\ pub[t] # 0
         ]_vars
    /\ \A t \in Threads : (Rank(pc[t]) > 0) ~> (t \notin mutex)

\* A store holds the mutex and is about to publish while the other thread
\* is pinned and keeps its read guard.
C22_Witness ==
    \E t \in Threads : \E u \in Other(t) :
        /\ pc[t] = "store_publish" /\ mutex = {t}
        /\ slot[u].active /\ Len(guards[u]) = 1 /\ pc[u] = "idle"

\* Thread t publishes in this step (the store inside store, swap, update,
\* update_and_fetch, fetch_and_update or a WriteGuard's drop).
PublishStep(t) == pub[t] = 0 /\ pub'[t] # 0

\* C23 -- The global epoch never decreases and advances by exactly one per
\* publish: it is its initial value 0 plus the number of versions published
\* so far; a step that publishes adds one to it, and no other step (of a
\* read, of a try_write that fails, of a write abandoned by a panic, of a
\* collection pass) changes it.
C23_EpochCountsPublishes ==
    [][/\ epoch = Len(heap) - 1 /\ epoch = live - 1
       /\ epoch' >= epoch
       /\ \A t \in Threads :
              PublishStep(t) => epoch' = epoch + 1 /\ live' = live + 1
       /\ epoch' # epoch => \E t \in Threads : PublishStep(t)
       /\ \A t \in Threads :
              (\/ /\ pc'[t] # pc[t]
                     /\ \/ pc[t] \in {"try_write_none", "unwind"}
                        \/ pc'[t] \in {"try_write_none", "unwind"}
                  \/ ReadLoads(t) \/ MapFilterStep(t) \/ CollectStep(t))
                 => epoch' = epoch
      ]_vars

\* Two versions have been published, the second by a WriteGuard that is
\* still held; a try_write of the other thread has just failed.
C23_Witness ==
    \E t \in Threads : \E u \in Other(t) :
        /\ epoch = 2 /\ Len(log) = 3
        /\ pc[t] = "try_write_none" /\ wg[u].held

\* The versions in the retired list.
RetiredVers == {retired[i].ver : i \in 1..Len(retired)}

\* C24 -- Each publish retires exactly the version it replaced, once: the
\* newest version is the single live one and is neither retired nor freed;
\* every older version is either in the retired list, once, or freed, never
\* both; the retired list is in publish order; and the entry of version v
\* carries the epoch reached by the publish that replaced v (the v-th
\* publish, which moved the epoch from v - 1 to v).
C24_RetireReplacedOnce ==
    /\ live = Len(heap)
    /\ live \notin freed /\ live \notin RetiredVers
    /\ RetiredVers \cup freed = 1..(live - 1)
    /\ RetiredVers \cap freed = {}
    /\ Cardinality(RetiredVers) = Len(retired)
    /\ \A i \in 1..Len(retired) :
           /\ retired[i].epoch = retired[i].ver
           /\ retired[i].epoch <= epoch
           /\ \A j \in 1..(i - 1) : retired[j].ver < retired[i].ver
    /\ \A t \in Threads :
           (pub[t] # 0 /\ pc[t] \in CollectPcs)
               => /\ live = pub[t]
                  /\ Len(retired) > 0
                  /\ retired[Len(retired)] = [ver |-> live - 1, epoch |-> epoch]

\* Version 1 has been freed, version 2 has just been retired by a
\* WriteGuard's commit and version 3 is live.
C24_Witness ==
    \E t \in Threads :
        /\ pc[t] = "drop_return" /\ live = 3
        /\ freed = {1} /\ RetiredVers = {2}

TryWriteFails(t) ==
    \/ pc[t] = "idle" /\ pc'[t] = "try_write_none"
    \/ pc[t] = "try_write_none" /\ pc'[t] = "idle"

\* C26 -- A failed try_write changes nothing: no step of a try_write that
\* returns None changes the live pointer, a cell, the global epoch, the
\* retired list, the freed set, the mutex or its holder, any reader slot
\* (the caller's included: no pin is taken or left behind), or any read or
\* write guard.
C26_FailedTryWriteNoEffect ==
    [][\A t \in Threads :
          TryWriteFails(t)
             => /\ UNCHANGED <<live, heap, epoch, retired, freed, log>>
                /\ UNCHANGED <<mutex, poisoned, slot, guards, wg>>
                /\ UNCHANGED <<arg, cur, src, old, pub>>
      ]_vars

\* try_write is refused while the other thread is publishing an update;
\* the caller holds a read guard and its slot is pinned.
C26_Witness ==
    \E t \in Threads : \E u \in Other(t) :
        /\ pc[t] = "try_write_none"
        /\ slot[t].active /\ Len(guards[t]) = 1
        /\ mutex = {u} /\ pc[u] = "update_publish"

\* The load of update_and_fetch or fetch_and_update is taken in this step.
WriteCallLoads(t) ==
    \/ pc[t] = "uaf_load" /\ pc'[t] = "idle"
    \/ pc[t] = "fau_load" /\ pc'[t] = "fau_lock"
\* The version any load of t yields in this step.
Observed(t) ==
    IF pc[t] \in {"read_load", "uaf_load"} THEN Last(guards'[t]) ELSE cur'[t]

\* C27 -- Monotonic reads: the versions a thread's successive read operations
\* observe never go backwards in the write order.  The loads of one thread
\* happen one after the other; each load observes the version that is live
\* at that step; the live version never goes back to an earlier one; and
\* in particular a load never observes a version older than that of a read
\* guard the thread still holds from an earlier read.
C27_MonotonicReads ==
    [][/\ live' >= live
       /\ \A t \in Threads :
              (ReadLoads(t) \/ WriteCallLoads(t))
                 => /\ Observed(t) = live
                    /\ \A k \in 1..Len(guards[t]) : Observed(t) >= guards[t][k]
      ]_vars

\* A thread holds a read guard on version 1; the other thread has published
\* version 2; the first thread's get() has observed version 2.
C27_Witness ==
    \E t \in Threads :
        pc[t] = "get_clone" /\ cur[t] = 2 /\ guards[t] = <<1>>

====
